---- MODULE Spec2Model ----
(***************************************************************************)
(* Model of the ground-truth annotation tools of the repository:           *)
(*   gtruth_flat_to_yolo.py        (load_flat, normalize_polys_cell,        *)
(*                                  convert)                                *)
(*   filter_gtruth_flat_no_empty.py (polys_in_entry, row_has_any_polygon,   *)
(*                                  main)                                   *)
(*                                                                         *)
(* Python values are records.  A table cell is                              *)
(*   [type, dtype, shape, data, elems]                                      *)
(* type  : "NoneType" | "ndarray" | "str" (a Python scalar, not an array)   *)
(* dtype : "object" | "float64" | "U" (text that is not a numeral) | ""     *)
(* shape : the ndarray's shape, data : its numbers in row-major order,      *)
(* elems : for dtype object, the elements in ravel() order.                 *)
(***************************************************************************)
EXTENDS Integers, Sequences, FiniteSets, TLC

VARIABLES
    prog,          \* which script this run executes: "convert" | "filter"
    pc,            \* "start" | "loop" | "done" | "error"
    error,         \* the exception that ended the run, "none" otherwise
    mat,           \* the dict loadmat returns for the input .mat file
    fs,            \* the file system: image path -> "missing" | "notimage" | "image"
    image_files,   \* list of image identifiers, after to_list_str / as_list_str
    label_names,   \* list of class names
    label_polys,   \* the in-memory object array [shape, cells]
    i,             \* loop index of the per-image loop (0-based, next to process)
    lines,         \* convert: the local list `lines` of the last written image
    i_lines,       \* convert: the value of i when `lines` was filled, -1 before
    n_written,     \* convert: counter
    n_empty,       \* convert: counter
    labels_out,    \* convert: label directory, stem -> [exists, lines]
    yaml_out,      \* convert: the YAML file [exists, names]
    keep_idx,      \* filter: list of kept row indices (0-based)
    out_mat,       \* filter: the saved .mat file [exists, imageFiles, labelNames, labelPolys]
    stdout,        \* what the run printed: sequence of [label, value]
    entry,         \* cell specification: the cell handed to the two flatteners
    flat,          \* cell specification: result of normalize_polys_cell, or Pending
    total,         \* cell specification: result of polys_in_entry, or -1
    poly,          \* line specification: [pts, W, H, class_id], the loop body's input
    line           \* line specification: the label line produced, or Pending

vars == <<prog, pc, error, mat, fs, image_files, label_names, label_polys, i, lines,
          i_lines, n_written, n_empty, labels_out, yaml_out, keep_idx, out_mat, stdout,
          entry, flat, total, poly, line>>

pipeVars == <<prog, pc, error, mat, fs, image_files, label_names, label_polys, i, lines,
              i_lines, n_written, n_empty, labels_out, yaml_out, keep_idx, out_mat, stdout>>
cellVars == <<entry, flat, total>>
lineVars == <<poly, line>>

(***************************************************************************)
(* Bounds of the model.                                                    *)
(***************************************************************************)
\* largest number of nodes (containers and leaves) of a generated cell value
MaxNodes == 4
\* largest image width and height of the line specification
MaxDim == 3
\* largest number of table rows (images) of a generated table
MaxImages == 2

(***************************************************************************)
(* Python values.                                                          *)
(***************************************************************************)
None == [type |-> "NoneType", dtype |-> "", shape |-> <<>>, data |-> <<>>, elems |-> <<>>]

\* a Python str scalar (what squeeze_me makes of a 1x1 char cell): not an ndarray
PyStr == [type |-> "str", dtype |-> "", shape |-> <<>>, data |-> <<>>, elems |-> <<>>]

\* numeric ndarray of the given shape and row-major data
Num(shape, data) ==
    [type |-> "ndarray", dtype |-> "float64", shape |-> shape, data |-> data, elems |-> <<>>]

\* ndarray of text elements that are not numerals (a MATLAB char matrix)
Txt(shape) ==
    [type |-> "ndarray", dtype |-> "U", shape |-> shape, data |-> <<>>, elems |-> <<>>]

\* object ndarray (a MATLAB cell array); elems is its ravel()
Obj(elems) ==
    [type |-> "ndarray", dtype |-> "object", shape |-> <<Len(elems)>>, data |-> <<>>,
     elems |-> elems]

\* an n x 2 polygon from its vertex list <<<<x0,y0>>, <<x1,y1>>, ...>>
Poly(v) ==
    Num(<<Len(v), 2>>, [k \in 1..(2 * Len(v)) |-> v[(k + 1) \div 2][2 - (k % 2)]])

Pending == [exc |-> "pending", polys |-> <<>>]

Min(a, b) == IF a < b THEN a ELSE b
Max(a, b) == IF a > b THEN a ELSE b

(***************************************************************************)
(* numpy and the two flatteners.                                           *)
(***************************************************************************)
\* np.asarray(a, dtype=float): no copy when a is float64 already (what a slip
\* from np.array to np.asarray would give)
np_asarray_float(a) ==
    IF a.dtype = "U"
    THEN [exc |-> "ValueError", arr |-> a, shared |-> FALSE]
    ELSE [exc |-> "none", arr |-> [a EXCEPT !.dtype = "float64"],
          shared |-> (a.dtype = "float64")]

\* np.array(a, dtype=float): always a fresh copy; text that is no numeral
\* raises ValueError ("could not convert string to float")
np_array_float(a) ==
    IF a.dtype = "U"
    THEN [exc |-> "ValueError", arr |-> a, shared |-> FALSE]
    ELSE [exc |-> "none", arr |-> [a EXCEPT !.dtype = "float64"], shared |-> FALSE]

\* the shape test with the row threshold off by one (>= 2)
ShapeOkFrom2(arr) ==
    /\ Len(arr.shape) = 2
    /\ arr.shape[2] = 2
    /\ arr.shape[1] >= 2

\* normalize_polys_cell's test:
\* arr.ndim == 2 and arr.shape[1] == 2 and arr.shape[0] >= 3
ShapeOk(arr) ==
    /\ Len(arr.shape) = 2
    /\ arr.shape[2] = 2
    /\ arr.shape[1] >= 3

\* polys_in_entry's test, written out a second time in the filter script:
\* arr.ndim == 2 and arr.shape[1] == 2 and arr.shape[0] >= 3
CountShapeOk(arr) ==
    /\ Len(arr.shape) = 2
    /\ arr.shape[2] = 2
    /\ arr.shape[1] >= 3

Ret(polys) == [exc |-> "none", polys |-> polys]
Raise(e) == [exc |-> e, polys |-> <<>>]

RECURSIVE normalize_polys_cell(_, _)
RECURSIVE NormalizeElems(_, _, _, _)

\* the for loop of normalize_polys_cell over cell_entry.ravel(): polys.extend(...)
\* j is the next element, polys the list so far; an exception leaves the loop
NormalizeElems(elems, at, j, polys) ==
    IF j > Len(elems) THEN Ret(polys)
    ELSE LET r == normalize_polys_cell(elems[j], Append(at, j))
         IN  IF r.exc # "none" THEN r
             ELSE NormalizeElems(elems, at, j + 1, polys \o r.polys)

\* normalize_polys_cell(cell_entry).  `at` is the position of cell_entry inside
\* the table cell (the index path from the cell's root): it identifies the
\* object, so that each returned array records which leaf it was made from
\* (at) and whether it shares that leaf's memory (shared).
normalize_polys_cell(cell_entry, at) ==
    IF cell_entry.type = "NoneType" THEN Ret(<<>>)
    ELSE IF cell_entry.type = "ndarray" /\ cell_entry.dtype = "object"
    THEN NormalizeElems(cell_entry.elems, at, 1, <<>>)
    ELSE IF cell_entry.type = "ndarray" /\ cell_entry.dtype # "object"
    THEN LET r == np_array_float(cell_entry)
         IN  IF r.exc # "none" THEN Raise(r.exc)
             ELSE IF ShapeOk(r.arr)
                  THEN Ret(<<[arr |-> r.arr, at |-> at, shared |-> r.shared]>>)
                  ELSE Ret(<<>>)
    ELSE Ret(<<>>)

RECURSIVE polys_in_entry(_)
RECURSIVE CountElems(_, _, _)

\* the for loop of polys_in_entry: total += polys_in_entry(e)
CountElems(elems, j, tot) ==
    IF j > Len(elems) THEN tot
    ELSE CountElems(elems, j + 1, tot + polys_in_entry(elems[j]))

\* polys_in_entry(entry): np.asarray(entry) converts nothing, so only the
\* shape decides
polys_in_entry(e) ==
    IF e.type = "NoneType" THEN 0
    ELSE IF e.type = "ndarray" /\ e.dtype = "object" THEN CountElems(e.elems, 1, 0)
    ELSE IF e.type = "ndarray" /\ e.dtype # "object"
    THEN IF CountShapeOk(e) THEN 1 ELSE 0
    ELSE 0

RECURSIVE RowScan(_, _)
\* the for loop of row_has_any_polygon, returning at the first hit
RowScan(row_obj, c) ==
    IF c > Len(row_obj) THEN FALSE
    ELSE IF polys_in_entry(row_obj[c]) > 0 THEN TRUE
    ELSE RowScan(row_obj, c + 1)

row_has_any_polygon(row_obj) == RowScan(row_obj, 1)

(***************************************************************************)
(* Cell values of bounded size, for the cell specification.                *)
(***************************************************************************)
TriA == Poly(<<<<1, 1>>, <<5, 1>>, <<5, 5>>>>)
QuadB == Poly(<<<<2, 2>>, <<2, 8>>, <<8, 8>>, <<8, 2>>>>)
TwoPts == Poly(<<<<1, 1>>, <<2, 2>>>>)
ThreeCols == Num(<<3, 3>>, <<1, 1, 1, 2, 2, 2, 3, 3, 3>>)
EmptyArr == Num(<<0>>, <<>>)
Flat6 == Num(<<6>>, <<1, 1, 5, 1, 5, 5>>)

\* the leaves of a CellValue: empty, valid polygons, and numeric arrays of a
\* wrong shape
NumLeaves == {None, EmptyArr, TriA, QuadB, TwoPts, ThreeCols}

RECURSIVE TreesOfSize(_)
RECURSIVE ForestsOfSize(_)
\* the cell values with exactly n nodes
TreesOfSize(n) ==
    IF n = 1 THEN NumLeaves \cup {Obj(<<>>)}
    ELSE {Obj(f) : f \in ForestsOfSize(n - 1)}
\* the sequences of cell values with m nodes in all
ForestsOfSize(m) ==
    IF m = 0 THEN {<<>>}
    ELSE UNION {{<<t>> \o f : t \in TreesOfSize(k), f \in ForestsOfSize(m - k)} :
                k \in 1..m}

CellValues == UNION {TreesOfSize(n) : n \in 1..MaxNodes}

InitPipeIdle ==
    /\ prog = "none" /\ pc = "done" /\ error = "none"
    /\ mat = <<>> /\ fs = <<>>
    /\ image_files = <<>> /\ label_names = <<>> /\ label_polys = <<>>
    /\ i = 0 /\ lines = <<>> /\ i_lines = -1 /\ n_written = 0 /\ n_empty = 0
    /\ labels_out = <<>> /\ yaml_out = <<>> /\ keep_idx = <<>> /\ out_mat = <<>>
    /\ stdout = <<>>

InitCellIdle == entry = None /\ flat = Pending /\ total = -1
InitLineIdle == poly = <<>> /\ line = Pending

InitCell ==
    /\ InitPipeIdle /\ InitLineIdle
    /\ entry \in CellValues
    /\ flat = Pending
    /\ total = -1

\* a caller evaluates normalize_polys_cell(entry)
CallNormalize ==
    /\ flat = Pending
    /\ flat' = normalize_polys_cell(entry, <<>>)
    /\ UNCHANGED <<entry, total>>
    /\ UNCHANGED pipeVars /\ UNCHANGED lineVars

\* a caller evaluates polys_in_entry(entry)
CallPolysInEntry ==
    /\ total = -1
    /\ total' = polys_in_entry(entry)
    /\ UNCHANGED <<entry, flat>>
    /\ UNCHANGED pipeVars /\ UNCHANGED lineVars

NextCell == CallNormalize \/ CallPolysInEntry

SpecCell == InitCell /\ [][NextCell]_vars

(***************************************************************************)
(* Depth-first order, stated without the flatteners: the leaves of a cell  *)
(* are its index paths, ordered lexicographically.                         *)
(***************************************************************************)
RECURSIVE LeafPaths(_)
LeafPaths(cell) ==
    IF cell.type = "ndarray" /\ cell.dtype = "object"
    THEN UNION {{<<j>> \o p : p \in LeafPaths(cell.elems[j])} : j \in 1..Len(cell.elems)}
    ELSE {<<>>}

RECURSIVE LeafAt(_, _)
LeafAt(cell, p) == IF p = <<>> THEN cell ELSE LeafAt(cell.elems[p[1]], Tail(p))

\* p comes before q in left-to-right depth-first order
PathBefore(p, q) ==
    \E k \in 1..Min(Len(p), Len(q)) :
        /\ \A j \in 1..(k - 1) : p[j] = q[j]
        /\ p[k] < q[k]

\* a valid leaf polygon: a numeric array, 2-D, 2 columns, at least 3 rows
IsValidLeaf(leaf) ==
    /\ leaf.type = "ndarray"
    /\ leaf.dtype = "float64"
    /\ Len(leaf.shape) = 2
    /\ leaf.shape[2] = 2
    /\ leaf.shape[1] > 2

ValidPaths(cell) == {p \in LeafPaths(cell) : IsValidLeaf(LeafAt(cell, p))}

\* C2: normalize_polys_cell returns exactly the valid leaf polygons of the
\* cell in depth-first left-to-right order, each once, raising nothing, and
\* polys_in_entry returns the length of that sequence.
C2_FlattenIsDepthFirst ==
    /\ flat.exc # "pending" =>
         /\ flat.exc = "none"
         /\ \A k \in 1..Len(flat.polys) :
              /\ flat.polys[k].at \in ValidPaths(entry)
              /\ flat.polys[k].arr = LeafAt(entry, flat.polys[k].at)
         /\ \A p \in ValidPaths(entry) :
              Cardinality({k \in 1..Len(flat.polys) : flat.polys[k].at = p}) = 1
         /\ \A j, k \in 1..Len(flat.polys) :
              j < k => PathBefore(flat.polys[j].at, flat.polys[k].at)
    /\ total # -1 => total = Cardinality(ValidPaths(entry))

\* a nested cell with an empty container between two valid polygons has been
\* flattened and counted
C2_Witness ==
    /\ entry = Obj(<<QuadB, Obj(<<>>), TriA>>)
    /\ flat.exc = "none"
    /\ Len(flat.polys) = 2
    /\ total = 2

(***************************************************************************)
(* The body of convert's loop over the polygons of one cell.               *)
(* A label line is [class_id, tokens]; a coordinate token is the text      *)
(* "d.dddddd", held as the integer it spells in units of 10^-6             *)
(* ("0.333333" is 333333, "1.000000" is 1000000).                          *)
(***************************************************************************)
\* the 6 of the format f"{v:.6f}"
Decimals == 6
Scale == 10 ^ Decimals

\* np.clip with the lower limit 0 instead of 1
ClipFromZero(v, lo, hi) == Min(Max(v, 0), hi)

\* np.clip(v, lo, hi) = minimum(maximum(v, lo), hi), element by element
Clip(v, lo, hi) == Min(Max(v, lo), hi)

\* f"{v:.6f}" of v = num / float(den): the quotient rounded to 6 decimals,
\* to nearest.  An exact decimal tie (2 * rem = den) needs den >= 128; there
\* the double nearest the quotient decides, taken here as half-to-even.
Fmt(num, den) ==
    LET q == (num * Scale) \div den
        rem == (num * Scale) % den
    IN  IF 2 * rem > den THEN q + 1
        ELSE IF 2 * rem < den THEN q
        ELSE IF q % 2 = 0 THEN q ELSE q + 1

\* pts[:, col] of an n x 2 array (col is 1 or 2 here, 0 or 1 in the source)
Column(arr, col) == [k \in 1..arr.shape[1] |-> arr.data[2 * (k - 1) + col]]

\* coords[0:n] = x ; coords[n:] = y  (all x, then all y)
InterleaveBlocks(x, y) == x \o y

\* coords[0::2] = x ; coords[1::2] = y
Interleave(x, y) ==
    [k \in 1..(2 * Len(x)) |-> IF k % 2 = 1 THEN x[(k + 1) \div 2] ELSE y[k \div 2]]

\* the array after  pts[:, 0] = np.clip(pts[:, 0], 1, W)
\*                  pts[:, 1] = np.clip(pts[:, 1], 1, H)
ClipInPlace(arr, W, H) ==
    [arr EXCEPT !.data = [k \in 1..Len(arr.data) |->
        IF k % 2 = 1 THEN Clip(arr.data[k], 1, W) ELSE Clip(arr.data[k], 1, H)]]

\* one pass of `for pts in polys`: [skip, line, arr], arr being pts afterwards
LoopBody(class_id, pts, W, H) ==
    IF Len(pts.shape) # 2 \/ pts.shape[2] # 2 \/ pts.shape[1] < 3
    THEN [skip |-> TRUE, line |-> <<>>, arr |-> pts]
    ELSE LET clipped == ClipInPlace(pts, W, H)
             x == [k \in 1..clipped.shape[1] |-> Fmt(Column(clipped, 1)[k], W)]
             y == [k \in 1..clipped.shape[1] |-> Fmt(Column(clipped, 2)[k], H)]
         IN  [skip |-> FALSE,
              line |-> [class_id |-> class_id, tokens |-> Interleave(x, y)],
              arr |-> clipped]

\* pixel coordinates tried: negative, 0, inside, on the border, beyond it
Coord == (0 - 1)..(MaxDim + 1)
Widths == 1..MaxDim
\* the least and the largest height
Heights == {1, MaxDim}

InitLine ==
    /\ InitPipeIdle /\ InitCellIdle
    /\ \E v \in [1..3 -> Coord \X Coord], W \in Widths, H \in Heights :
          poly = [pts |-> Poly(v), W |-> W, H |-> H, class_id |-> 0]
    /\ line = Pending

\* the loop body runs on the polygon
WriteLine ==
    /\ line = Pending
    /\ line' = LoopBody(poly.class_id, poly.pts, poly.W, poly.H)
    /\ UNCHANGED poly
    /\ UNCHANGED pipeVars /\ UNCHANGED cellVars

NextLine == WriteLine

SpecLine == InitLine /\ [][NextLine]_vars

XTokens(l) == {l.tokens[k] : k \in {j \in 1..Len(l.tokens) : j % 2 = 1}}
YTokens(l) == {l.tokens[k] : k \in {j \in 1..Len(l.tokens) : j % 2 = 0}}

\* C5 as stated: every written x lies in [1/W, 1] and every written y in
\* [1/H, 1].
C5_WrittenInUnitRange ==
    (line # Pending /\ ~line.skip) =>
        /\ \A t \in XTokens(line.line) : t * poly.W >= Scale /\ t <= Scale
        /\ \A t \in YTokens(line.line) : t * poly.H >= Scale /\ t <= Scale

\* C5 amended: every written x lies in (1/W - 0.000001, 1] and every written
\* y in (1/H - 0.000001, 1]: it is the 6-decimal rendering of a value of
\* [1/W, 1], which may round below 1/W; none exceeds 1 and, at these sizes,
\* none is 0 or less.
C5_WrittenWithinOneUnit ==
    (line # Pending /\ ~line.skip) =>
        /\ \A t \in XTokens(line.line) :
              (t + 1) * poly.W > Scale /\ t <= Scale /\ t > 0
        /\ \A t \in YTokens(line.line) :
              (t + 1) * poly.H > Scale /\ t <= Scale /\ t > 0

\* a polygon with a negative, a zero and a beyond-the-border coordinate has
\* been written for a 3-pixel-wide image: 1/3 is rendered 0.333333
C5_Witness ==
    /\ line # Pending
    /\ ~line.skip
    /\ poly.W = 3
    /\ poly.pts = Poly(<<<<0 - 1, 0>>, <<4, 1>>, <<2, 4>>>>)
    /\ line.line.tokens[1] = 333333
    /\ line.line.tokens[3] = Scale

(***************************************************************************)
(* The two scripts.  A run executes one of them on a .mat file.            *)
(***************************************************************************)
\* image identifiers: <<directory, stem, suffix>> of the path string
PathPool == {<<"a", "x", ".jpg">>, <<"b", "x", ".jpg">>, <<"a", "y", ".png">>}

\* Path(p).stem: the file name without directory and suffix
Stem(p) == p[2]
StemPool == {Stem(p) : p \in PathPool}

\* im.size of the image file at p, when it is one
ImSize(p) == IF p[1] = "a" THEN IF p[2] = "x" THEN <<4, 3>> ELSE <<2, 2>> ELSE <<3, 4>>

\* img_path.is_file()
IsFile(p) == fs[p] # "missing"

\* sample polygons: inside every image; and with negative, zero and
\* beyond-the-border coordinates and a repeated vertex
PolyIn == Poly(<<<<1, 1>>, <<2, 1>>, <<2, 2>>>>)
PolyOut == Poly(<<<<0, 0 - 1>>, <<5, 2>>, <<2, 9>>, <<2, 9>>>>)

\* sample rows of a 2-class table
RowEmpty == <<None, EmptyArr>>
RowNested == <<Obj(<<TwoPts, Obj(<<PolyOut>>), PolyIn>>), QuadB>>
RowInvalid == <<Obj(<<TwoPts, ThreeCols, PyStr>>), Flat6>>
RowSecond == <<None, Obj(<<TriA, PolyOut>>)>>
RowText == <<Txt(<<3, 2>>), Txt(<<2>>)>>
SampleRows == {RowEmpty, RowNested, RowInvalid, RowSecond, RowText}
NumClasses == Len(RowEmpty)

RECURSIVE Flatten(_)
\* the rows of a table laid out row-major, as the object array holds them
Flatten(rows) == IF rows = <<>> THEN <<>> ELSE Head(rows) \o Flatten(Tail(rows))

Table(rows) == [shape |-> <<Len(rows), NumClasses>>, cells |-> Flatten(rows)]

AllKeys == {"imageFiles", "labelNames", "labelPolys"}
ClassNames == <<"apple_green", "apple_red">>

\* well-formed .mat files: N images, N rows, 2 class names, 2 columns
GoodMats ==
    UNION {{[keys |-> AllKeys, imageFiles |-> f, labelNames |-> ClassNames,
             labelPolys |-> Table(r)] :
            f \in [1..n -> PathPool], r \in [1..n -> SampleRows]} : n \in 0..MaxImages}

TwoRows == Table(<<RowNested, RowEmpty>>)
TwoFiles == <<<<"a", "x", ".jpg">>, <<"a", "y", ".png">>>>

\* .mat files that break the input contract
BadMats ==
    { \* a variable is missing
      [keys |-> {"imageFiles", "labelPolys"}, imageFiles |-> TwoFiles,
       labelNames |-> <<>>, labelPolys |-> TwoRows],
      \* the table is 1-D (squeeze_me squeezed a 1 x 2 table)
      [keys |-> AllKeys, imageFiles |-> <<<<"a", "x", ".jpg">>>>,
       labelNames |-> ClassNames, labelPolys |-> [shape |-> <<2>>, cells |-> RowNested]],
      \* one image identifier for two rows
      [keys |-> AllKeys, imageFiles |-> <<<<"a", "x", ".jpg">>>>,
       labelNames |-> ClassNames, labelPolys |-> TwoRows],
      \* three class names for two columns
      [keys |-> AllKeys, imageFiles |-> TwoFiles,
       labelNames |-> <<"apple_green", "apple_red", "leaf">>, labelPolys |-> TwoRows],
      \* one class name for two columns
      [keys |-> AllKeys, imageFiles |-> TwoFiles,
       labelNames |-> <<"apple_green">>, labelPolys |-> TwoRows] }

AllImages == [p \in PathPool |-> "image"]
NoTable == [shape |-> <<>>, cells |-> <<>>]
NoFile == [exists |-> FALSE, lines |-> <<>>]
NoYaml == [exists |-> FALSE, names |-> <<>>]
NoMat == [exists |-> FALSE, imageFiles |-> <<>>, labelNames |-> <<>>, labelPolys |-> NoTable]

InitRun ==
    /\ pc = "start" /\ error = "none"
    /\ image_files = <<>> /\ label_names = <<>> /\ label_polys = NoTable
    /\ i = 0 /\ lines = <<>> /\ i_lines = -1 /\ n_written = 0 /\ n_empty = 0
    /\ labels_out = [st \in StemPool |-> NoFile]
    /\ yaml_out = NoYaml
    /\ keep_idx = <<>>
    /\ out_mat = NoMat
    /\ stdout = <<>>

Init ==
    /\ InitCellIdle /\ InitLineIdle
    /\ InitRun
    /\ \/ /\ prog = "convert"
          /\ \/ mat \in GoodMats /\ fs \in [PathPool -> {"missing", "notimage", "image"}]
             \/ mat \in BadMats /\ fs = AllImages
       \/ /\ prog = "filter"
          /\ mat \in GoodMats \cup BadMats
          /\ fs = AllImages

\* label_polys[i, :] for a 0-based i
Row(table, r) == SubSeq(table.cells, r * table.shape[2] + 1, (r + 1) * table.shape[2])

\* load_flat's checks after loadmat: the exception raised, "none" when they pass
LoadFlatError(m) ==
    IF \E k \in AllKeys : k \notin m.keys THEN "RuntimeError"
    ELSE IF Len(m.labelPolys.shape) # 2 THEN "RuntimeError"
    ELSE IF Len(m.imageFiles) # m.labelPolys.shape[1] THEN "RuntimeError"
    ELSE "none"

\* the same checks as the filter's main writes them
MainLoadError(m) ==
    IF \E k \in AllKeys : k \notin m.keys THEN "RuntimeError"
    ELSE IF Len(m.labelPolys.shape) # 2 THEN "RuntimeError"
    ELSE IF Len(m.imageFiles) # m.labelPolys.shape[1] THEN "RuntimeError"
    ELSE "none"

(***************************************************************************)
(* gtruth_flat_to_yolo.py: convert                                         *)
(***************************************************************************)
\* class_id = c + 1 (1-based class identifiers)
ClassIdOneBased(c) == c + 1

\* class_id = c
ClassId(c) == c

RECURSIVE PolyLoop(_, _, _, _, _, _)
\* `for pts in polys` for the cell of column c (0-based); k is the next polygon,
\* acc = [lines, writes]: the list `lines`, and the in-place assignments that
\* reached an array sharing memory with the table
PolyLoop(c, polys, k, W, H, acc) ==
    IF k > Len(polys) THEN acc
    ELSE LET b == LoopBody(ClassId(c), polys[k].arr, W, H)
             ln == [class_id |-> b.line.class_id, tokens |-> b.line.tokens,
                    src |-> [c |-> c, at |-> polys[k].at]]
             wr == [c |-> c, at |-> polys[k].at, arr |-> b.arr]
         IN  IF b.skip THEN PolyLoop(c, polys, k + 1, W, H, acc)
             ELSE PolyLoop(c, polys, k + 1, W, H,
                           [lines |-> Append(acc.lines, ln),
                            writes |-> IF polys[k].shared THEN Append(acc.writes, wr)
                                       ELSE acc.writes])

RECURSIVE ClassLoop(_, _, _, _, _)
\* `for c in range(n_classes)` over one row; an exception of
\* normalize_polys_cell leaves the loop
ClassLoop(row, c, W, H, acc) ==
    IF c >= Len(row) THEN [exc |-> "none", lines |-> acc.lines, writes |-> acc.writes]
    ELSE LET r == normalize_polys_cell(row[c + 1], <<>>)
         IN  IF r.exc # "none"
             THEN [exc |-> r.exc, lines |-> acc.lines, writes |-> acc.writes]
             ELSE IF r.polys = <<>> THEN ClassLoop(row, c + 1, W, H, acc)
             ELSE ClassLoop(row, c + 1, W, H, PolyLoop(c, r.polys, 1, W, H, acc))

RECURSIVE SetLeaf(_, _, _)
\* the cell with the leaf at index path p replaced
SetLeaf(cell, p, arr) ==
    IF p = <<>> THEN arr
    ELSE [cell EXCEPT !.elems[p[1]] = SetLeaf(cell.elems[p[1]], Tail(p), arr)]

RECURSIVE ApplyWrites(_, _, _)
\* the table after the in-place assignments `writes` made while row r was read
ApplyWrites(table, r, writes) ==
    IF writes = <<>> THEN table
    ELSE LET w == Head(writes)
             ix == r * table.shape[2] + w.c + 1
         IN  ApplyWrites([table EXCEPT !.cells[ix] = SetLeaf(table.cells[ix], w.at, w.arr)],
                         r, Tail(writes))

\* load_flat, ensure_dir(labels_out), the counters
ConvertLoad ==
    /\ prog = "convert" /\ pc = "start"
    /\ IF LoadFlatError(mat) # "none"
       THEN /\ pc' = "error"
            /\ error' = LoadFlatError(mat)
            /\ UNCHANGED <<image_files, label_names, label_polys>>
       ELSE /\ pc' = "loop"
            /\ image_files' = mat.imageFiles
            /\ label_names' = mat.labelNames
            /\ label_polys' = mat.labelPolys
            /\ UNCHANGED error
    /\ i' = 0 /\ n_written' = 0 /\ n_empty' = 0
    /\ UNCHANGED <<prog, mat, fs, lines, i_lines, labels_out, yaml_out, keep_idx, out_mat,
                   stdout>>
    /\ UNCHANGED cellVars /\ UNCHANGED lineVars

\* one pass of `for i in range(n_images)`: the image is no file, `continue`
ConvertSkip ==
    /\ prog = "convert" /\ pc = "loop"
    /\ i < label_polys.shape[1]
    /\ ~IsFile(image_files[i + 1])
    /\ i' = i + 1
    /\ UNCHANGED <<prog, pc, error, mat, fs, image_files, label_names, label_polys, lines,
                   i_lines, n_written, n_empty, labels_out, yaml_out, keep_idx, out_mat,
                   stdout>>
    /\ UNCHANGED cellVars /\ UNCHANGED lineVars

\* one pass: the file is there but Image.open cannot read it as an image; the
\* exception is caught nowhere
ConvertOpenFail ==
    /\ prog = "convert" /\ pc = "loop"
    /\ i < label_polys.shape[1]
    /\ fs[image_files[i + 1]] = "notimage"
    /\ pc' = "error"
    /\ error' = "UnidentifiedImageError"
    /\ UNCHANGED <<prog, mat, fs, image_files, label_names, label_polys, i, lines,
                   i_lines, n_written, n_empty, labels_out, yaml_out, keep_idx, out_mat,
                   stdout>>
    /\ UNCHANGED cellVars /\ UNCHANGED lineVars

\* one pass: the image is opened, the row turned into lines, the label file
\* written and the counters advanced; a ValueError of the flattening ends the run
ConvertImage ==
    /\ prog = "convert" /\ pc = "loop"
    /\ i < label_polys.shape[1]
    /\ fs[image_files[i + 1]] = "image"
    /\ LET img_path == image_files[i + 1]
           W == ImSize(img_path)[1]
           H == ImSize(img_path)[2]
           r == ClassLoop(Row(label_polys, i), 0, W, H, [lines |-> <<>>, writes |-> <<>>])
       IN  IF r.exc # "none"
           THEN /\ pc' = "error"
                /\ error' = r.exc
                /\ label_polys' = ApplyWrites(label_polys, i, r.writes)
                /\ UNCHANGED <<i, lines, i_lines, n_written, n_empty, labels_out>>
           ELSE /\ lines' = r.lines
                /\ i_lines' = i
                /\ label_polys' = ApplyWrites(label_polys, i, r.writes)
                /\ labels_out' = [labels_out EXCEPT ![Stem(img_path)] =
                                     [exists |-> TRUE, lines |-> r.lines]]
                /\ n_written' = n_written + 1
                /\ n_empty' = IF r.lines = <<>> THEN n_empty + 1 ELSE n_empty
                /\ i' = i + 1
                /\ UNCHANGED <<pc, error>>
    /\ UNCHANGED <<prog, mat, fs, image_files, label_names, yaml_out, keep_idx, out_mat,
                   stdout>>
    /\ UNCHANGED cellVars /\ UNCHANGED lineVars

\* after the loop: data.yaml is written and the counters printed
ConvertFinish ==
    /\ prog = "convert" /\ pc = "loop"
    /\ i = label_polys.shape[1]
    /\ yaml_out' = [exists |-> TRUE, names |-> label_names]
    /\ stdout' = stdout \o <<[label |-> "Labels escritos", value |-> n_written],
                             [label |-> "Labels vacios", value |-> n_empty]>>
    /\ pc' = "done"
    /\ UNCHANGED <<prog, error, mat, fs, image_files, label_names, label_polys, i, lines,
                   i_lines, n_written, n_empty, labels_out, keep_idx, out_mat>>
    /\ UNCHANGED cellVars /\ UNCHANGED lineVars

(***************************************************************************)
(* filter_gtruth_flat_no_empty.py: main                                    *)
(***************************************************************************)
\* the kept rows taken in reverse
TakeRowsReversed(table, idx) ==
    [shape |-> <<Len(idx), table.shape[2]>>,
     cells |-> Flatten([k \in 1..Len(idx) |-> Row(table, idx[Len(idx) + 1 - k])])]

\* label_polys[keep_idx, :]
TakeRows(table, idx) ==
    [shape |-> <<Len(idx), table.shape[2]>>,
     cells |-> Flatten([k \in 1..Len(idx) |-> Row(table, idx[k])])]

\* loadmat, the key check, the two shape checks
FilterLoad ==
    /\ prog = "filter" /\ pc = "start"
    /\ IF MainLoadError(mat) # "none"
       THEN /\ pc' = "error"
            /\ error' = MainLoadError(mat)
            /\ UNCHANGED <<image_files, label_names, label_polys>>
       ELSE /\ pc' = "loop"
            /\ image_files' = mat.imageFiles
            /\ label_names' = mat.labelNames
            /\ label_polys' = mat.labelPolys
            /\ UNCHANGED error
    /\ keep_idx' = <<>>
    /\ i' = 0
    /\ UNCHANGED <<prog, mat, fs, lines, i_lines, n_written, n_empty, labels_out, yaml_out,
                   out_mat, stdout>>
    /\ UNCHANGED cellVars /\ UNCHANGED lineVars

\* one pass of `for i in range(n_images)`
FilterRow ==
    /\ prog = "filter" /\ pc = "loop"
    /\ i < label_polys.shape[1]
    /\ keep_idx' = IF row_has_any_polygon(Row(label_polys, i))
                   THEN Append(keep_idx, i) ELSE keep_idx
    /\ i' = i + 1
    /\ UNCHANGED <<prog, pc, error, mat, fs, image_files, label_names, label_polys, lines,
                   i_lines, n_written, n_empty, labels_out, yaml_out, out_mat, stdout>>
    /\ UNCHANGED cellVars /\ UNCHANGED lineVars

\* after the loop: the kept identifiers and rows are taken, the three counts
\* printed and the filtered .mat saved
FilterFinish ==
    /\ prog = "filter" /\ pc = "loop"
    /\ i = label_polys.shape[1]
    /\ LET image_files_f == [k \in 1..Len(keep_idx) |-> image_files[keep_idx[k] + 1]]
           label_polys_f == TakeRows(label_polys, keep_idx)
       IN  /\ stdout' = stdout \o
                 <<[label |-> "Total imagenes", value |-> label_polys.shape[1]],
                   [label |-> "Con poligonos", value |-> Len(image_files_f)],
                   [label |-> "Eliminadas",
                    value |-> label_polys.shape[1] - Len(image_files_f)]>>
           /\ out_mat' = [exists |-> TRUE, imageFiles |-> image_files_f,
                          labelNames |-> label_names, labelPolys |-> label_polys_f]
    /\ pc' = "done"
    /\ UNCHANGED <<prog, error, mat, fs, image_files, label_names, label_polys, i, lines,
                   i_lines, n_written, n_empty, labels_out, yaml_out, keep_idx>>
    /\ UNCHANGED cellVars /\ UNCHANGED lineVars

Next ==
    \/ ConvertLoad
    \/ ConvertSkip
    \/ ConvertOpenFail
    \/ ConvertImage
    \/ ConvertFinish
    \/ FilterLoad
    \/ FilterRow
    \/ FilterFinish

Spec == Init /\ [][Next]_vars

(***************************************************************************)
(* Properties of the two scripts.                                          *)
(***************************************************************************)
\* the row `lines` was made from, as the .mat file holds it
LinesRow == Row(mat.labelPolys, i_lines)

\* the image `lines` was made for
LinesImage == image_files[i_lines + 1]

\* the number of valid leaf polygons of a row
ValidInRow(row) ==
    Cardinality(UNION {{<<c, p>> : p \in ValidPaths(row[c])} : c \in 1..Len(row)})

\* C1: for a row of empty cells, numeric arrays and nested containers,
\* row_has_any_polygon is true exactly when convert's label-writing loop
\* produces at least one line for that row; a row without any valid leaf gives
\* false and no line.
C1_PredicateIffLines ==
    (prog = "convert" /\ i_lines >= 0) =>
        /\ row_has_any_polygon(LinesRow) <=> Len(lines) >= 1
        /\ ValidInRow(LinesRow) = 0 => (~row_has_any_polygon(LinesRow) /\ lines = <<>>)

\* the loop has written the lines of a row whose first cell nests a valid
\* polygon under an invalid one, and the predicate is true of it
C1_Witness ==
    /\ prog = "convert"
    /\ i_lines >= 0
    /\ LinesRow = RowNested
    /\ Len(lines) = 3
    /\ row_has_any_polygon(LinesRow)

\* C3: the filter keeps exactly the rows of which row_has_any_polygon is
\* true, in their order, each kept identifier paired with its row, and prints
\* total, retained and dropped counts with retained + dropped = total.
C3_FilterRetainsExactly ==
    (prog = "filter" /\ pc = "done") =>
        LET N == Len(image_files)
            kept == {r \in 0..(N - 1) : row_has_any_polygon(Row(label_polys, r))}
            f == out_mat.imageFiles
        IN  /\ Len(f) = Cardinality(kept)
            /\ Len(keep_idx) = Len(f)
            /\ \A k \in 1..Len(keep_idx) : keep_idx[k] \in kept
            /\ \A j, k \in 1..Len(keep_idx) : j < k => keep_idx[j] < keep_idx[k]
            /\ out_mat.labelPolys.shape = <<Len(f), label_polys.shape[2]>>
            /\ \A k \in 1..Len(f) :
                  /\ f[k] = image_files[keep_idx[k] + 1]
                  /\ Row(out_mat.labelPolys, k - 1) = Row(label_polys, keep_idx[k])
            /\ stdout[1].value = N
            /\ stdout[2].value = Cardinality(kept)
            /\ stdout[2].value + stdout[3].value = stdout[1].value

\* the filter has finished a two-row table of which it kept both rows, the
\* rows being different
C3_Witness ==
    /\ prog = "filter"
    /\ pc = "done"
    /\ keep_idx = <<0, 1>>
    /\ Row(label_polys, 0) = RowSecond
    /\ Row(label_polys, 1) = RowNested
    /\ out_mat.exists

\* C4: the lines of one image are grouped by ascending class index; each line
\* carries the column index of the cell its polygon came from; within a class
\* the lines follow the order of normalize_polys_cell on that cell; and there
\* are as many lines as valid polygons in the row.
C4_LinesClassMajor ==
    (prog = "convert" /\ i_lines >= 0) =>
        /\ \A k \in 1..Len(lines) :
              /\ lines[k].class_id \in 0..(Len(LinesRow) - 1)
              /\ lines[k].class_id = lines[k].src.c
        /\ \A j, k \in 1..Len(lines) : j < k => lines[j].class_id <= lines[k].class_id
        /\ \A c \in 0..(Len(LinesRow) - 1) :
              LET sel == SelectSeq(lines, LAMBDA l : l.src.c = c)
                  pol == normalize_polys_cell(LinesRow[c + 1], <<>>).polys
              IN  /\ Len(sel) = Len(pol)
                  /\ \A k \in 1..Len(sel) : sel[k].src.at = pol[k].at
        /\ Len(lines) = ValidInRow(LinesRow)

\* the lines of a row with two polygons of class 0 and one of class 1
C4_Witness ==
    /\ prog = "convert"
    /\ i_lines >= 0
    /\ LinesRow = RowNested
    /\ Len(lines) = 3
    /\ lines[1].class_id = 0
    /\ lines[2].class_id = 0
    /\ lines[3].class_id = 1

\* C10: the line of a valid polygon with n vertices holds its class and 2n
\* tokens, token 2k the rendering of clamp(xk, 1, W)/W and token 2k+1 that of
\* clamp(yk, 1, H)/H, in vertex order; and the table's polygons are as loaded.
C10_VerticesKept ==
    /\ (prog = "convert" /\ pc # "start" /\ error # "RuntimeError") =>
          label_polys = mat.labelPolys
    /\ (prog = "convert" /\ i_lines >= 0) =>
          \A k \in 1..Len(lines) :
              LET leaf == LeafAt(LinesRow[lines[k].src.c + 1], lines[k].src.at)
                  n == leaf.shape[1]
                  W == ImSize(LinesImage)[1]
                  H == ImSize(LinesImage)[2]
              IN  /\ Len(lines[k].tokens) = 2 * n
                  /\ \A v \in 0..(n - 1) :
                        /\ lines[k].tokens[2 * v + 1] =
                              Fmt(Max(1, Min(W, leaf.data[2 * v + 1])), W)
                        /\ lines[k].tokens[2 * v + 2] =
                              Fmt(Max(1, Min(H, leaf.data[2 * v + 2])), H)

\* the polygon (0,-1),(5,2),(2,9),(2,9) of class 1 has been written for the
\* 4 x 3 image: four vertices, the repeated one twice
C10_Witness ==
    /\ prog = "convert"
    /\ i_lines >= 0
    /\ LinesRow = RowSecond
    /\ LinesImage = <<"a", "x", ".jpg">>
    /\ lines[2].class_id = 1
    /\ lines[2].tokens =
          <<250000, 333333, 1000000, 666667, 500000, 1000000, 500000, 1000000>>

\* the images convert could not locate
NotLocated == {k \in 1..Len(image_files) : ~IsFile(image_files[k])}

\* C6: an image that cannot be located, or whose size cannot be read, never
\* ends the run; the remaining images are processed; and the printed
\* counters report the number of skipped images.
C6_SkipCountedAndReported ==
    /\ error # "UnidentifiedImageError"
    /\ (prog = "convert" /\ pc = "done") =>
          /\ \A k \in 1..Len(image_files) :
                fs[image_files[k]] = "image" => labels_out[Stem(image_files[k])].exists
          /\ \E k \in 1..Len(stdout) : stdout[k].value = Cardinality(NotLocated)

\* the input breaks the contract: table not 2-D, or identifiers and rows
\* differ in number, or class names and columns differ in number
StructuralError ==
    \/ Len(mat.labelPolys.shape) # 2
    \/ Len(mat.imageFiles) # mat.labelPolys.shape[1]
    \/ Len(mat.labelNames) # mat.labelPolys.shape[2]

NothingWritten ==
    /\ \A st \in StemPool : ~labels_out[st].exists
    /\ ~yaml_out.exists
    /\ ~out_mat.exists

\* C7: on a structural input error the converter and the filter abort before
\* any label file, YAML catalog or filtered table is written.
C7_StructuralErrorAborts ==
    StructuralError => (pc # "done" /\ NothingWritten)

\* C8: a malformed leaf never raises and counts as no polygon: the converter
\* never ends in a ValueError, and the filter keeps no row without a valid
\* numeric polygon.
C8_MalformedNeverRaises ==
    /\ error # "ValueError"
    /\ prog = "filter" =>
          \A k \in 1..Len(keep_idx) : ValidInRow(Row(label_polys, keep_idx[k])) > 0

\* C9: after convert has run over all images, no label file named by the
\* stem of a skipped image has been written.
C9_NoLabelForSkipped ==
    (prog = "convert" /\ pc = "done") =>
        \A k \in NotLocated : ~labels_out[Stem(image_files[k])].exists

====
